---------------------------- MODULE Spec2Model ----------------------------
(***************************************************************************)
(* Model of the RAUC install session of rauc-hawkbit-updater               *)
(* (src/rauc-installer.c).                                                 *)
(*                                                                         *)
(* rauc_install() builds an install_context and starts the "installer"     *)
(* thread.  install_loop_thread() creates the D-Bus proxy, connects the    *)
(* two signal handlers, calls Install synchronously and runs a GMainLoop   *)
(* on loop_context until a handler quits it; it then disconnects the       *)
(* handlers, calls notify_complete and frees the context.                  *)
(*                                                                         *)
(* GLib facts the model relies on:                                         *)
(*  - signal handlers of the proxy are dispatched by iterations of the     *)
(*    main context that was thread-default when the proxy was built, that  *)
(*    is loop_context, which only g_main_loop_run() at line 167 iterates;  *)
(*  - g_main_loop_quit() clears the loop's running flag; sources already   *)
(*    collected for the current iteration are still dispatched before      *)
(*    g_main_loop_run() returns;                                           *)
(*  - g_main_context_invoke(ctx, f, d) calls f directly when the calling   *)
(*    thread owns ctx (or ctx is its thread-default and can be acquired),  *)
(*    and otherwise attaches an idle source to ctx.                        *)
(***************************************************************************)
EXTENDS Integers, Sequences, FiniteSets, TLC

\* Number of notifications the remote service emits in one session.
MaxNotifications == 4

\* status_result written by install_context_new().
StatusNew == -2

\* status_result written by rauc_install() before the thread starts.
StatusInitial == 2

\* status_result written when the D-Bus service disappeared.
StatusDisappeared == 2

VARIABLES
    pc,               \* position of the installer thread in install_loop_thread
    notify_event,     \* context->notify_event is non-NULL
    notify_complete,  \* context->notify_complete is non-NULL
    status_result,    \* context->status_result
    status_messages,  \* context->status_messages (GQueue, head first)
    is_running,       \* running flag of context->mainloop
    loop_owner,       \* thread that has acquired context->loop_context
    thread_default,   \* thread-default main context of the installer thread
    proxy,            \* r_installer_proxy: "null" or "proxy"
    handlers,         \* signals of the proxy connected with data = context
    idle_sources,     \* notify_event sources attached to loop_context
    context_freed,    \* g_free(context) has run
    pushed,           \* every string pushed on status_messages, in order
    delivered,        \* every string popped by notify_event, in order
    event_calls,      \* invocations of notify_event
    event_threads,    \* threads on which notify_event ran
    invoke_requests,  \* calls of g_main_context_invoke
    complete_calls,   \* invocations of notify_complete
    complete_seen,    \* status_result at each invocation of notify_complete
    quit_calls,       \* calls of g_main_loop_quit
    first_terminal,   \* what the first handler that quit the loop recorded
    completed_seen,   \* "completed" signals handled so far
    visited,          \* steps of install_loop_thread executed so far
    exit_path,        \* the step whose failure jumped to out_loop, or "loop"
    ndispatched,      \* notifications dispatched so far
    result_origin,    \* the code that last wrote status_result
    last_handled,     \* the notification the running main loop dispatched last,
                      \* and what its handler did
    unguarded,        \* accesses to status_result / status_messages made
                      \* without holding status_mutex
    complete_ctx,     \* thread, connected handlers and freed flag at each
                      \* invocation of notify_complete
    freed_by,         \* the thread of each g_free(context), in order
    context_holders   \* threads that hold a pointer to the context: the
                      \* caller inside rauc_install, then the installer thread

vars == <<pc, notify_event, notify_complete, status_result, status_messages,
          is_running, loop_owner, thread_default, proxy, handlers,
          idle_sources, context_freed, pushed, delivered, event_calls,
          event_threads, invoke_requests, complete_calls, complete_seen,
          quit_calls, first_terminal, completed_seen, visited, exit_path,
          ndispatched, result_origin, last_handled, unguarded, complete_ctx,
          freed_by, context_holders>>

-----------------------------------------------------------------------------
(* Inputs: what the remote service can send.                               *)

\* An optional value is a sequence of length 0 (absent) or 1 (present).
OptOperation == {<<>>, <<"installing">>}
OptProgress ==
    {<<>>, <<<<10, "checking", 1>>>>, <<<<50, "writing", 1>>>>, <<<<100, "done", 1>>>>}
OptLastError == {<<>>, <<"">>, <<"fail">>}

\* The a{sv} dictionary of a g-properties-changed signal.
ChangedDicts ==
    [Operation : OptOperation, Progress : OptProgress, LastError : OptLastError]

\* The NULL-terminated array of invalidated property names.
InvalidatedLists == {<<>>, <<"Progress">>}

\* Result codes a "completed" signal can carry.
CompletedResults == {-1, 0, 1, 2}

-----------------------------------------------------------------------------
(* Pure helpers.                                                           *)

\* g_variant_lookup(changed, key, ...): TRUE when the key is present.
g_variant_lookup(changed, key) == Len(changed[key]) > 0

\* printf's "%3d": the decimal number right-justified in at least 3 columns.
Format3d(n) ==
    LET s == ToString(n)
    IN  IF Len(s) >= 3 THEN s
        ELSE IF Len(s) = 2 THEN " " \o s
        ELSE "  " \o s

\* g_strdup_printf("%3d%% %s", percentage, message)
FormatProgress(p) == Format3d(p[1]) \o "% " \o p[2]

\* g_strdup_printf("LastError: %s", message)
FormatLastError(message) == "LastError: " \o message

StatusRecords_ProgressFirst(changed) ==
    IF Len(changed.Progress) > 0
    THEN <<FormatProgress(changed.Progress[1])>>
    ELSE IF Len(changed.Operation) > 0
    THEN <<changed.Operation[1]>>
    ELSE IF Len(changed.LastError) > 0 /\ changed.LastError[1] # ""
    THEN <<FormatLastError(changed.LastError[1])>>
    ELSE <<>>

\* The if / else-if chain of on_installer_status: the strings pushed for one
\* notification (at most one).
StatusRecords(changed) ==
    IF g_variant_lookup(changed, "Operation")
    THEN <<changed.Operation[1]>>
    ELSE IF g_variant_lookup(changed, "Progress")
    THEN <<FormatProgress(changed.Progress[1])>>
    ELSE IF g_variant_lookup(changed, "LastError") /\ changed.LastError[1] # ""
    THEN <<FormatLastError(changed.LastError[1])>>
    ELSE <<>>

\* invalidated && invalidated[0]
ServiceDisappeared(invalidated) == Len(invalidated) > 0

PushGuard_Always(registered) == TRUE

\* if (context->notify_event): the whole push block is skipped without a
\* registered callback.
PushGuard(registered) == registered

ShouldInvoke_Inverted(queue) == queue = <<>>

\* if (!g_queue_is_empty(&context->status_messages))
ShouldInvoke(queue) == queue # <<>>

InvokesDirectly_Never(thread) == FALSE

\* g_main_context_invoke(context->loop_context, ...): the function is called
\* directly when the calling thread owns loop_context, or when loop_context is
\* its thread-default context and nobody else owns it.
InvokesDirectly(thread) ==
    \/ loop_owner = thread
    \/ (thread_default = "loop_context" /\ loop_owner = "none")

\* The terminal bookkeeping of the first handler that quits the loop.
RecordTerminal(kind, result) ==
    IF first_terminal = <<>>
    THEN <<[kind |-> kind, result |-> result, npushed |-> Len(pushed),
            ncompleted |-> completed_seen]>>
    ELSE first_terminal

QuitsLoop_Always(result) == TRUE

\* if (result >= 0) g_main_loop_quit(context->mainloop);
QuitsLoop(result) == result >= 0

\* Events of one run of a function, in program order: g_mutex_lock,
\* g_mutex_unlock, and reads / writes of status_result and status_messages.
Lock(fn, line) == [ev |-> "lock", fn |-> fn, obj |-> "status_mutex", line |-> line]
Unlock(fn, line) == [ev |-> "unlock", fn |-> fn, obj |-> "status_mutex", line |-> line]
Access(fn, mode, obj, line) == [ev |-> mode, fn |-> fn, obj |-> obj, line |-> line]

\* The line of on_installer_status that pushes for this dictionary.
PushLine(changed) ==
    IF g_variant_lookup(changed, "Operation") THEN 54
    ELSE IF g_variant_lookup(changed, "Progress") THEN 56
    ELSE 58

\* Program order of on_installer_status.
StatusTrace(changed, invalidated, registered) ==
    IF ServiceDisappeared(invalidated)
    THEN <<Lock("on_installer_status", 44),
           Access("on_installer_status", "write", "status_result", 45),
           Unlock("on_installer_status", 46)>>
    ELSE IF PushGuard(registered)
    THEN <<Lock("on_installer_status", 52)>>
         \o (IF StatusRecords(changed) # <<>>
             THEN <<Access("on_installer_status", "write", "status_messages",
                           PushLine(changed))>>
             ELSE <<>>)
         \o <<Unlock("on_installer_status", 60),
              Access("on_installer_status", "read", "status_messages", 62)>>
    ELSE <<>>

\* Program order of on_installer_completed.
CompletedTrace ==
    <<Lock("on_installer_completed", 78),
      Access("on_installer_completed", "write", "status_result", 79),
      Unlock("on_installer_completed", 80)>>

\* Program order of install_context_free up to the assertions; the mutex was
\* cleared at line 115.  A failing assertion at line 117 aborts before the
\* queue is read at line 118.
FreeTrace ==
    <<Access("install_context_free", "read", "status_result", 117)>>
    \o (IF status_result >= 0
        THEN <<Access("install_context_free", "read", "status_messages", 118)>>
        ELSE <<>>)

\* Program order of rauc_install: the thread does not exist yet.
InstallTrace == <<Access("rauc_install", "write", "status_result", 199)>>

\* The accesses of a trace made while the mutex is not held.
RECURSIVE UnguardedFrom(_, _)
UnguardedFrom(trace, held) ==
    IF trace = <<>> THEN {}
    ELSE LET e == Head(trace)
         IN  IF e.ev = "lock" THEN UnguardedFrom(Tail(trace), TRUE)
             ELSE IF e.ev = "unlock" THEN UnguardedFrom(Tail(trace), FALSE)
             ELSE (IF held THEN {} ELSE {e}) \cup UnguardedFrom(Tail(trace), held)

UnguardedAccesses(trace) == UnguardedFrom(trace, FALSE)

\* The dictionary recorded for a handler that receives none.
NoChanged == [Operation |-> <<>>, Progress |-> <<>>, LastError |-> <<>>]

\* The thread g_thread_new("installer", install_loop_thread, context) starts.
InstallerThread == "worker"

\* The record kept of the handler that ran last.
Handled(handler, changed, invalidated, result, npush, ninvoke, quit, after) ==
    <<[handler |-> handler, changed |-> changed, invalidated |-> invalidated,
       result |-> result, npush |-> npush, ninvoke |-> ninvoke, quit |-> quit,
       before |-> status_result, after |-> after]>>

\* The caller's on-event callback (on_install_notify): it pops every queued
\* string from the head of status_messages and returns G_SOURCE_REMOVE.
notify_event_cb(queue) == [popped |-> queue, rest |-> <<>>]

\* The thread that dispatches the sources of loop_context, and so runs the
\* handlers: the one inside g_main_loop_run(), which only install_loop_thread
\* calls.
DispatchThread == InstallerThread

-----------------------------------------------------------------------------
Init ==
    /\ pc = "idle"
    /\ notify_event = FALSE
    /\ notify_complete = FALSE
    /\ status_result = StatusNew
    /\ status_messages = <<>>
    /\ is_running = FALSE
    /\ loop_owner = "none"
    /\ thread_default = "none"
    /\ proxy = "null"
    /\ handlers = {}
    /\ idle_sources = 0
    /\ context_freed = FALSE
    /\ pushed = <<>>
    /\ delivered = <<>>
    /\ event_calls = 0
    /\ event_threads = {}
    /\ invoke_requests = 0
    /\ complete_calls = 0
    /\ complete_seen = <<>>
    /\ quit_calls = 0
    /\ first_terminal = <<>>
    /\ completed_seen = 0
    /\ visited = {}
    /\ exit_path = "none"
    /\ ndispatched = 0
    /\ result_origin = "install_context_new"
    /\ last_handled = <<>>
    /\ unguarded = {}
    /\ complete_ctx = <<>>
    /\ freed_by = <<>>
    /\ context_holders = {"caller"}

\* What no step of install_loop_thread before the main loop touches.
SessionUnchanged ==
    /\ UNCHANGED <<notify_event, notify_complete, status_result, status_messages,
                   is_running, idle_sources, context_freed, pushed, delivered,
                   event_calls, event_threads, invoke_requests, complete_calls,
                   complete_seen, quit_calls, first_terminal, completed_seen,
                   ndispatched>>
    /\ UNCHANGED <<result_origin, last_handled, unguarded, complete_ctx>>
    /\ UNCHANGED <<freed_by, context_holders>>

\* rauc_install(bundle, on_install_notify, on_install_complete), called on the
\* caller's thread: fills the context and starts the installer thread.  The
\* context pointer, held until then by the caller's local variable, is handed
\* to g_thread_new() and rauc_install returns void, so after the call only the
\* installer thread holds it.
rauc_install(on_install_notify, on_install_complete) ==
    /\ pc = "idle"
    /\ notify_event' = on_install_notify
    /\ notify_complete' = on_install_complete
    /\ status_result' = StatusInitial
    /\ pc' = "thread_start"
    /\ visited' = visited \cup {"rauc_install"}
    /\ UNCHANGED <<status_messages, is_running, loop_owner, thread_default,
                   proxy, handlers, idle_sources, context_freed, pushed,
                   delivered, event_calls, event_threads, invoke_requests,
                   complete_calls, complete_seen, quit_calls, first_terminal,
                   completed_seen, ndispatched>>
    /\ UNCHANGED exit_path
    /\ result_origin' = "rauc_install"
    /\ unguarded' = unguarded \cup UnguardedAccesses(InstallTrace)
    /\ UNCHANGED <<last_handled, complete_ctx, freed_by>>
    /\ context_holders' = {InstallerThread}

\* install_loop_thread entry: g_main_context_push_thread_default(loop_context),
\* which acquires loop_context for the installer thread.
thread_start ==
    /\ pc = "thread_start"
    /\ thread_default' = "loop_context"
    /\ pc' = "proxy_new"
    /\ visited' = visited \cup {"thread_start"}
    /\ loop_owner' = InstallerThread
    /\ UNCHANGED <<proxy, handlers>>
    /\ SessionUnchanged
    /\ UNCHANGED exit_path

\* r_installer_proxy_new_for_bus_sync(); NULL sends the thread to out_loop.
proxy_new(ok) ==
    /\ pc = "proxy_new"
    /\ proxy' = IF ok THEN "proxy" ELSE "null"
    /\ pc' = IF ok THEN "connect_status" ELSE "out_loop"
    /\ visited' = visited \cup {"proxy_new"}
    /\ exit_path' = IF ok THEN exit_path ELSE "proxy_new"
    /\ UNCHANGED <<loop_owner, thread_default, handlers>>
    /\ SessionUnchanged

\* g_signal_connect(proxy, "g-properties-changed", on_installer_status, context)
connect_status(ok) ==
    /\ pc = "connect_status"
    /\ handlers' = IF ok THEN handlers \cup {"g-properties-changed"} ELSE handlers
    /\ pc' = IF ok THEN "connect_completed" ELSE "out_loop"
    /\ visited' = visited \cup {"connect_status"}
    /\ exit_path' = IF ok THEN exit_path ELSE "connect_status"
    /\ UNCHANGED <<loop_owner, thread_default, proxy>>
    /\ SessionUnchanged

\* g_signal_connect(proxy, "completed", on_installer_completed, context)
connect_completed(ok) ==
    /\ pc = "connect_completed"
    /\ handlers' = IF ok THEN handlers \cup {"completed"} ELSE handlers
    /\ pc' = IF ok THEN "call_install" ELSE "out_loop"
    /\ visited' = visited \cup {"connect_completed"}
    /\ exit_path' = IF ok THEN exit_path ELSE "connect_completed"
    /\ UNCHANGED <<loop_owner, thread_default, proxy>>
    /\ SessionUnchanged

\* r_installer_call_install_sync(proxy, bundle)
call_install(ok) ==
    /\ pc = "call_install"
    /\ pc' = IF ok THEN "loop_run" ELSE "out_loop"
    /\ visited' = visited \cup {"call_install"}
    /\ exit_path' = IF ok THEN exit_path ELSE "call_install"
    /\ UNCHANGED <<loop_owner, thread_default, proxy, handlers>>
    /\ SessionUnchanged

\* g_main_loop_run(context->mainloop): acquires loop_context once more (the
\* thread owns it since line 137) and sets the running flag; the thread then
\* iterates the context.
main_loop_run ==
    /\ pc = "loop_run"
    /\ is_running' = TRUE
    /\ loop_owner' = InstallerThread
    /\ pc' = "loop"
    /\ visited' = visited \cup {"loop"}
    /\ UNCHANGED <<notify_event, notify_complete, status_result,
                   status_messages, thread_default, proxy, handlers,
                   idle_sources, context_freed, pushed, delivered, event_calls,
                   event_threads, invoke_requests, complete_calls,
                   complete_seen, quit_calls, first_terminal, completed_seen,
                   ndispatched>>
    /\ UNCHANGED exit_path
    /\ UNCHANGED <<result_origin, last_handled, unguarded, complete_ctx>>
    /\ UNCHANGED <<freed_by, context_holders>>

\* on_installer_status(proxy, changed, invalidated, context), dispatched by an
\* iteration of the main loop.  It may still be dispatched after a handler of
\* the same iteration has quit the loop.
on_installer_status(changed, invalidated) ==
    /\ pc = "loop"
    /\ "g-properties-changed" \in handlers
    /\ ndispatched < MaxNotifications
    /\ ndispatched' = ndispatched + 1
    /\ IF ServiceDisappeared(invalidated)
       THEN /\ status_result' = StatusDisappeared
            /\ is_running' = FALSE
            /\ quit_calls' = quit_calls + 1
            /\ first_terminal' = RecordTerminal("disappeared", StatusDisappeared)
            /\ UNCHANGED <<status_messages, pushed, delivered, event_calls,
                           event_threads, invoke_requests, idle_sources>>
       ELSE /\ UNCHANGED <<status_result, is_running, quit_calls, first_terminal>>
            /\ IF PushGuard(notify_event)
               THEN LET records == StatusRecords(changed)
                        queue == status_messages \o records
                    IN  /\ pushed' = pushed \o records
                        /\ IF ShouldInvoke(queue)
                           THEN /\ invoke_requests' = invoke_requests + 1
                                /\ IF InvokesDirectly(DispatchThread)
                                   THEN LET r == notify_event_cb(queue)
                                        IN  /\ delivered' = delivered \o r.popped
                                            /\ status_messages' = r.rest
                                            /\ event_calls' = event_calls + 1
                                            /\ event_threads' =
                                                   event_threads \cup {DispatchThread}
                                            /\ UNCHANGED idle_sources
                                   ELSE /\ idle_sources' = idle_sources + 1
                                        /\ status_messages' = queue
                                        /\ UNCHANGED <<delivered, event_calls,
                                                       event_threads>>
                           ELSE /\ status_messages' = queue
                                /\ UNCHANGED <<delivered, event_calls,
                                               event_threads, invoke_requests,
                                               idle_sources>>
               ELSE UNCHANGED <<status_messages, pushed, delivered, event_calls,
                                event_threads, invoke_requests, idle_sources>>
    /\ UNCHANGED <<pc, notify_event, notify_complete, loop_owner,
                   thread_default, proxy, handlers, context_freed,
                   complete_calls, complete_seen, completed_seen, visited>>
    /\ UNCHANGED exit_path
    /\ result_origin' = IF ServiceDisappeared(invalidated)
                        THEN "on_installer_status" ELSE result_origin
    /\ unguarded' = unguarded \cup
           UnguardedAccesses(StatusTrace(changed, invalidated, notify_event))
    /\ last_handled' = Handled("status", changed, invalidated, 0,
                               Len(pushed') - Len(pushed),
                               invoke_requests' - invoke_requests,
                               quit_calls' > quit_calls, status_result')
    /\ UNCHANGED <<complete_ctx, freed_by, context_holders>>

\* on_installer_completed(proxy, result, context), dispatched like the above.
on_installer_completed(result) ==
    /\ pc = "loop"
    /\ "completed" \in handlers
    /\ ndispatched < MaxNotifications
    /\ ndispatched' = ndispatched + 1
    /\ completed_seen' = completed_seen + 1
    /\ status_result' = result
    /\ IF QuitsLoop(result)
       THEN /\ is_running' = FALSE
            /\ quit_calls' = quit_calls + 1
            /\ first_terminal' = RecordTerminal("completed", result)
       ELSE UNCHANGED <<is_running, quit_calls, first_terminal>>
    /\ UNCHANGED <<pc, notify_event, notify_complete, status_messages,
                   loop_owner, thread_default, proxy, handlers, idle_sources,
                   context_freed, pushed, delivered, event_calls,
                   event_threads, invoke_requests, complete_calls,
                   complete_seen, visited>>
    /\ UNCHANGED exit_path
    /\ result_origin' = "on_installer_completed"
    /\ unguarded' = unguarded \cup UnguardedAccesses(CompletedTrace)
    /\ last_handled' = Handled("completed", NoChanged, <<>>, result, 0, 0,
                               quit_calls' > quit_calls, status_result')
    /\ UNCHANGED <<complete_ctx, freed_by, context_holders>>

\* g_main_loop_run() returns once the running flag is cleared; no source is
\* being dispatched any more.  The thread keeps the ownership of loop_context
\* it took at line 137.
main_loop_return ==
    /\ pc = "loop"
    /\ ~is_running
    /\ UNCHANGED loop_owner
    /\ pc' = "out_loop"
    /\ exit_path' = "loop"
    /\ UNCHANGED <<notify_event, notify_complete, status_result,
                   status_messages, is_running, thread_default, proxy,
                   handlers, idle_sources, context_freed, pushed, delivered,
                   event_calls, event_threads, invoke_requests, complete_calls,
                   complete_seen, quit_calls, first_terminal, completed_seen,
                   visited, ndispatched>>
    /\ last_handled' = <<>>
    /\ UNCHANGED <<result_origin, unguarded, complete_ctx>>
    /\ UNCHANGED <<freed_by, context_holders>>

disconnect_handlers_skipped ==
    /\ pc = "out_loop"
    /\ pc' = "notify_complete"
    /\ visited' = visited \cup {"out_loop"}
    /\ UNCHANGED <<loop_owner, thread_default, proxy, handlers>>
    /\ SessionUnchanged
    /\ UNCHANGED exit_path

\* out_loop: g_signal_handlers_disconnect_by_data(r_installer_proxy, context)
disconnect_handlers ==
    /\ pc = "out_loop"
    /\ handlers' = {}
    /\ pc' = "notify_complete"
    /\ visited' = visited \cup {"out_loop"}
    /\ UNCHANGED <<loop_owner, thread_default, proxy>>
    /\ SessionUnchanged
    /\ UNCHANGED exit_path

call_notify_complete_after_loop ==
    /\ pc = "notify_complete"
    /\ IF notify_complete /\ "loop" \in visited
       THEN /\ complete_calls' = complete_calls + 1
            /\ complete_seen' = Append(complete_seen, status_result)
            /\ complete_ctx' = Append(complete_ctx,
                   [thread |-> InstallerThread, handlers |-> handlers,
                    freed |-> context_freed])
       ELSE UNCHANGED <<complete_calls, complete_seen, complete_ctx>>
    /\ thread_default' = "none"
    /\ loop_owner' = "none"
    /\ pc' = "free"
    /\ visited' = visited \cup {"notify_complete"}
    /\ UNCHANGED <<notify_event, notify_complete, status_result,
                   status_messages, is_running, proxy, handlers,
                   idle_sources, context_freed, pushed, delivered, event_calls,
                   event_threads, invoke_requests, quit_calls, first_terminal,
                   completed_seen, ndispatched>>
    /\ UNCHANGED exit_path
    /\ UNCHANGED <<result_origin, last_handled, unguarded>>
    /\ UNCHANGED <<freed_by, context_holders>>

\* if (context->notify_complete) context->notify_complete(context); then
\* g_main_context_pop_thread_default(context->loop_context), which releases
\* loop_context.
call_notify_complete ==
    /\ pc = "notify_complete"
    /\ IF notify_complete
       THEN /\ complete_calls' = complete_calls + 1
            /\ complete_seen' = Append(complete_seen, status_result)
            /\ complete_ctx' = Append(complete_ctx,
                   [thread |-> InstallerThread, handlers |-> handlers,
                    freed |-> context_freed])
       ELSE UNCHANGED <<complete_calls, complete_seen, complete_ctx>>
    /\ thread_default' = "none"
    /\ loop_owner' = "none"
    /\ pc' = "free"
    /\ visited' = visited \cup {"notify_complete"}
    /\ UNCHANGED <<notify_event, notify_complete, status_result,
                   status_messages, is_running, proxy, handlers,
                   idle_sources, context_freed, pushed, delivered, event_calls,
                   event_threads, invoke_requests, quit_calls, first_terminal,
                   completed_seen, ndispatched>>
    /\ UNCHANGED exit_path
    /\ UNCHANGED <<result_origin, last_handled, unguarded>>
    /\ UNCHANGED <<freed_by, context_holders>>

\* install_context_free(context): the two assertions abort the process when
\* they fail; otherwise the context is freed with g_free on the installer
\* thread, which then returns from install_loop_thread.
install_context_free ==
    /\ pc = "free"
    /\ IF status_result >= 0 /\ status_messages = <<>>
       THEN /\ context_freed' = TRUE
            /\ freed_by' = Append(freed_by, InstallerThread)
            /\ context_holders' = context_holders \ {InstallerThread}
            /\ pc' = "done"
       ELSE /\ pc' = "aborted"
            /\ UNCHANGED <<context_freed, freed_by, context_holders>>
    /\ visited' = visited \cup {"free"}
    /\ UNCHANGED <<notify_event, notify_complete, status_result,
                   status_messages, is_running, loop_owner, thread_default,
                   proxy, handlers, idle_sources, pushed, delivered,
                   event_calls, event_threads, invoke_requests, complete_calls,
                   complete_seen, quit_calls, first_terminal, completed_seen,
                   ndispatched>>
    /\ UNCHANGED exit_path
    /\ unguarded' = unguarded \cup UnguardedAccesses(FreeTrace)
    /\ UNCHANGED <<result_origin, last_handled, complete_ctx>>

Next ==
    \/ \E ev \in BOOLEAN, cp \in BOOLEAN : rauc_install(ev, cp)
    \/ thread_start
    \/ \E ok \in BOOLEAN : proxy_new(ok)
    \/ \E ok \in BOOLEAN : connect_status(ok)
    \/ \E ok \in BOOLEAN : connect_completed(ok)
    \/ \E ok \in BOOLEAN : call_install(ok)
    \/ main_loop_run
    \/ \E c \in ChangedDicts, i \in InvalidatedLists : on_installer_status(c, i)
    \/ \E r \in CompletedResults : on_installer_completed(r)
    \/ main_loop_return
    \/ disconnect_handlers
    \/ call_notify_complete
    \/ install_context_free

Spec == Init /\ [][Next]_vars

\* The installer thread is a running thread: each of its steps after the main
\* loop is taken once it is possible.
FairSpec ==
    /\ Spec
    /\ WF_vars(main_loop_return)
    /\ WF_vars(disconnect_handlers)
    /\ WF_vars(call_notify_complete)
    /\ WF_vars(install_context_free)

-----------------------------------------------------------------------------
(* Properties of the session.                                              *)

\* The thread has passed the call of notify_complete.
PastComplete == pc \in {"free", "done", "aborted"}

\* The thread jumped to out_loop without running the main loop.
EarlyExit == exit_path \in {"proxy_new", "connect_status", "connect_completed",
                            "call_install"}

\* C1: with an on-complete callback registered, the callback has run exactly
\* once when the thread reaches install_context_free, on every path, and has
\* not run at all before that point.
C1_CompleteExactlyOnce ==
    notify_complete =>
        /\ complete_calls <= 1
        /\ PastComplete => complete_calls = 1
        /\ ~PastComplete => complete_calls = 0

C1_Witness ==
    /\ pc = "done"
    /\ notify_complete
    /\ complete_calls = 1
    /\ exit_path = "loop"
    /\ first_terminal # <<>>

\* C2: the strings the on-event callback removes are exactly the strings
\* pushed, in the same order, each once.
C2_FifoDelivery == delivered = pushed

C2_Witness ==
    /\ Len(delivered) = 3
    /\ delivered[1] # delivered[2]
    /\ delivered[2] # delivered[3]
    /\ pc = "done"

\* C3: the queue is empty when install_context_free is reached, with or
\* without an on-event callback.
C3_QueueEmptyAtFree == pc \in {"free", "done", "aborted"} => status_messages = <<>>

C3_Witness ==
    /\ pc = "free"
    /\ notify_event
    /\ Len(pushed) >= 2

\* C4: status_result >= 0 whenever install_context_free is reached.
C4_StatusPresentAtFree == pc = "free" => status_result >= 0

\* C5: when on-complete is invoked every pushed string has been handed to
\* on-event, and one delivery request was issued per push.
C5_DeliveredBeforeComplete ==
    (pc = "notify_complete" \/ complete_calls > 0) =>
        /\ status_messages = <<>>
        /\ delivered = pushed
        /\ invoke_requests = Len(pushed)
        /\ idle_sources = 0

C5_Witness ==
    /\ complete_calls = 1
    /\ delivered = <<" 10% checking", " 50% writing", "100% done">>
    /\ complete_seen = <<0>>
    /\ event_calls = 3

\* C6: every invocation of on-event runs on the thread that called
\* rauc_install, never on the installer thread.
C6_EventOnCallerThread ==
    /\ event_threads \subseteq {"caller"}
    /\ InstallerThread \notin event_threads

\* C7: once a handler has quit the loop, no later property notification pushes
\* a string.
C7_NoPushAfterTerminal ==
    first_terminal # <<>> => Len(pushed) = first_terminal[1].npushed

\* C8: the result recorded by the first handler that quit the loop is never
\* overwritten by a later completed or disconnect notification.  (The claim
\* adds that the loop is quit only once; the overwrite alone refutes it.)
C8_TerminalNeverOverwritten ==
    first_terminal # <<>> => status_result = first_terminal[1].result

\* C9: on an early exit the main loop is never entered, the steps after the
\* failed one are skipped, on-event is never invoked, and on-complete sees 2.
C9_EarlyExit ==
    EarlyExit =>
        /\ "loop" \notin visited
        /\ ~is_running
        /\ event_calls = 0
        /\ invoke_requests = 0
        /\ pushed = <<>>
        /\ status_result = 2
        /\ complete_seen \in {<<>>, <<2>>}
        /\ (PastComplete /\ notify_complete) => complete_seen = <<2>>
        /\ exit_path = "proxy_new" =>
               visited \cap {"connect_status", "connect_completed", "call_install"} = {}
        /\ exit_path = "connect_status" =>
               visited \cap {"connect_completed", "call_install"} = {}
        /\ exit_path = "connect_completed" => "call_install" \notin visited

C9_Witness ==
    /\ exit_path = "call_install"
    /\ pc = "done"
    /\ complete_seen = <<2>>

\* C10: when the service disappears before any completed signal, the strings
\* pushed before are delivered and on-complete sees the disconnect value.
C10_DisconnectResult ==
    (/\ first_terminal # <<>>
     /\ first_terminal[1].kind = "disappeared"
     /\ first_terminal[1].ncompleted = 0) =>
        /\ first_terminal[1].result = StatusDisappeared
        /\ delivered = pushed
        /\ PastComplete /\ notify_complete => complete_seen = <<StatusDisappeared>>


\* The last dispatched notification was a property change that does not signal
\* disconnection.
LastIsPlainStatus ==
    /\ last_handled # <<>>
    /\ last_handled[1].handler = "status"
    /\ last_handled[1].invalidated = <<>>

\* The strings the last handler pushed.
LastPushed ==
    SubSeq(pushed, Len(pushed) - last_handled[1].npush + 1, Len(pushed))

\* C11 as claimed: the result on-complete observes is 0 only after
\* completed(0), and equals the reserved value 2 only when the failure was
\* local (early exit or disconnect), never after a remote completed(code).
C11_ResultDistinguishesOutcome ==
    complete_seen # <<>> =>
        /\ complete_seen[1] = 0 => result_origin = "on_installer_completed"
        /\ complete_seen[1] = StatusDisappeared =>
               result_origin \in {"rauc_install", "on_installer_status"}

\* C12 as claimed: completed(result) with result >= 0 stores the result and
\* quits the loop; with result < 0 it neither quits nor changes status_result.
C12_NegativeCompletedIgnored ==
    (last_handled # <<>> /\ last_handled[1].handler = "completed") =>
        LET h == last_handled[1]
        IN  /\ h.result >= 0 => (h.after = h.result /\ h.quit)
            /\ h.result < 0 => (h.after = h.before /\ ~h.quit)

\* The string the priority rule of the specification selects, if any.
C13_Expected(changed) ==
    IF changed.Operation # <<>> THEN <<changed.Operation[1]>>
    ELSE IF changed.Progress # <<>>
    THEN <<Format3d(changed.Progress[1][1]) \o "% " \o changed.Progress[1][2]>>
    ELSE IF changed.LastError # <<>> /\ changed.LastError[1] # ""
    THEN <<"LastError: " \o changed.LastError[1]>>
    ELSE <<>>

\* C13 as claimed: every property change that is no disconnect pushes exactly
\* the string the priority rule selects (none when the rule selects none), in
\* every session.
C13_ClassifiedAlways ==
    LastIsPlainStatus => LastPushed = C13_Expected(last_handled[1].changed)

\* C13 as amended: the same, in a session with an on-event callback.
C13_ClassifiedWithCallback ==
    (LastIsPlainStatus /\ notify_event) =>
        /\ last_handled[1].npush <= 1
        /\ LastPushed = C13_Expected(last_handled[1].changed)

C13_Witness ==
    /\ LastIsPlainStatus
    /\ notify_event
    /\ last_handled[1].changed.Operation = <<>>
    /\ last_handled[1].changed.Progress # <<>>
    /\ last_handled[1].changed.LastError = <<"fail">>
    /\ LastPushed = <<"100% done">>

\* C14: with an on-event callback, one delivery request is issued for every
\* push, and the queue has been drained after each handler.
C14_InvokePerPush ==
    notify_event =>
        /\ invoke_requests = Len(pushed)
        /\ LastIsPlainStatus => last_handled[1].ninvoke = last_handled[1].npush
        /\ status_messages = <<>>
        /\ event_calls = invoke_requests

C14_Witness ==
    /\ notify_event
    /\ LastIsPlainStatus
    /\ last_handled[1].npush = 1
    /\ last_handled[1].ninvoke = 1
    /\ Len(pushed) = 3

\* C15 as claimed: without an on-event callback a record-producing property
\* change still appends its string, which stays queued; only the delivery
\* request is omitted.
C15_PushedWithoutCallback ==
    (LastIsPlainStatus /\ ~notify_event
        /\ C13_Expected(last_handled[1].changed) # <<>>) =>
        /\ last_handled[1].npush = 1
        /\ last_handled[1].ninvoke = 0
        /\ status_messages # <<>>

\* C15 as amended: without an on-event callback nothing is pushed at all, so
\* the queue stays empty until teardown.
C15_NothingPushedWithoutCallback ==
    ~notify_event =>
        /\ pushed = <<>>
        /\ status_messages = <<>>
        /\ invoke_requests = 0
        /\ event_calls = 0
        /\ last_handled # <<>> => last_handled[1].npush = 0

C15_Witness ==
    /\ ~notify_event
    /\ LastIsPlainStatus
    /\ last_handled[1].changed.Operation = <<"installing">>
    /\ ndispatched >= 2
    /\ pushed = <<>>

\* C16 as claimed: the handlers, the delivery decision and the teardown touch
\* status_result and status_messages only while status_mutex is held.
C16_AllAccessUnderMutex ==
    \A a \in unguarded :
        a.fn \notin {"on_installer_status", "on_installer_completed",
                     "install_context_free"}

\* C17: on-complete runs on the installer thread after the handlers are
\* disconnected and before the session is freed, on every path.
C17_TeardownOrder ==
    /\ \A i \in 1..Len(complete_ctx) :
           /\ complete_ctx[i].thread = "worker"
           /\ complete_ctx[i].handlers = {}
           /\ ~complete_ctx[i].freed
    /\ pc = "notify_complete" => (handlers = {} /\ "out_loop" \in visited)
    /\ "notify_complete" \in visited => "out_loop" \in visited
    /\ "free" \in visited => "notify_complete" \in visited
    /\ PastComplete => handlers = {}
    /\ context_freed =>
           /\ thread_default = "none"
           /\ notify_complete => Len(complete_ctx) = 1

C17_Witness ==
    /\ pc = "done"
    /\ exit_path = "call_install"
    /\ Len(complete_ctx) = 1
    /\ context_freed

\* C18: the wait ends only through completed(result >= 0) or a disconnect.
C18_WaitEndsOnlyOnTerminal ==
    /\ last_handled # <<>> =>
           (last_handled[1].quit <=>
               \/ (last_handled[1].handler = "completed" /\ last_handled[1].result >= 0)
               \/ (last_handled[1].handler = "status"
                      /\ last_handled[1].invalidated # <<>>))
    /\ ((pc = "loop" /\ ~is_running) \/ exit_path = "loop") =>
           /\ first_terminal # <<>>
           /\ first_terminal[1].kind = "completed" => first_terminal[1].result >= 0
    /\ (pc = "loop" /\ first_terminal = <<>>) => (is_running /\ quit_calls = 0)

C18_Witness ==
    /\ exit_path = "loop"
    /\ first_terminal # <<>>
    /\ first_terminal[1].kind = "disappeared"
    /\ first_terminal[1].ncompleted = 1
    /\ first_terminal[1].npushed = 2

\* C19 as claimed: once a terminal signal was handled, the session is
\* eventually torn down (on-complete invoked when registered, context freed).
C19_EventuallyTornDown ==
    (first_terminal # <<>>) ~>
        (context_freed /\ (notify_complete => complete_calls = 1))

\* C20: the session is freed exactly once, by the installer thread only and
\* only after on-complete has returned; once it is freed no handler is
\* connected, no delivery is pending or runs, the installer thread has
\* finished and the caller holds no pointer to it.
C20_FreedOnceThenUntouched ==
    /\ Len(freed_by) <= 1
    /\ pc \in {"done", "aborted"} => Len(freed_by) = 1
    /\ \A i \in 1..Len(freed_by) : freed_by[i] = InstallerThread
    /\ context_freed <=> Len(freed_by) = 1
    /\ context_freed =>
           /\ "notify_complete" \in visited
           /\ notify_complete => complete_calls = 1
           /\ \A i \in 1..Len(complete_ctx) : ~complete_ctx[i].freed
           /\ handlers = {}
           /\ idle_sources = 0
           /\ status_messages = <<>>
           /\ loop_owner = "none"
           /\ event_calls = invoke_requests
           /\ last_handled = <<>>
           /\ "caller" \notin context_holders
           /\ context_holders = {}

=============================================================================
